---- MODULE Spec2Model ----
(***************************************************************************)
(* Model of latentvideodiffusion/vae.py: the checkpoint-resumable training *)
(* loop (train), the inference entry points (sample_vae, reconstruct_vae)  *)
(* and the variational objective (vae_loss) with its Gaussian primitives.  *)
(***************************************************************************)
EXTENDS Integers, Sequences, FiniteSets, TLC

\* ------------------------------------------------------------------ bounds
MaxInterval == 3      \* cfg ckpt_interval ranges over 1..MaxInterval
MaxSteps == 5         \* update steps modelled per run
MaxRuns == 2          \* process starts modelled per behaviour
MaxLoss == 2          \* distinct loss values written to the metrics log

\* args.checkpoint is None (argparse default); iteration references are positive.
None == -1
\* No TrainingState has been constructed.
NoState == [vae |-> -1, opt_state |-> -1, key |-> <<>>, i |-> -1]
Losses == 1..MaxLoss
Intervals == 1..MaxInterval

VARIABLES
  pc,               \* position of the running process in train
  ckpt_interval,    \* cfg["vae"]["train"]["ckpt_interval"]
  args_checkpoint,  \* args.checkpoint of the current run (None or an iteration)
  state,            \* state = vae, opt_state, key, i
  loss,             \* loss returned by the last update_state
  log,              \* the lines of the file at metrics_path
  store,            \* persisted checkpoints: iteration tag -> state
  keyUse,           \* [key, by]: the keys handed to a consumer in this run
  runs,             \* processes started so far
  steps,            \* update steps performed by this run
  saved,            \* tags of the checkpoints persisted by this run, in order
  state0,           \* the state this run entered the loop with
  initPath          \* "fresh" or "load": the branch of line 153 this run took

tvars == <<pc, ckpt_interval, args_checkpoint, state, loss, log, store,
           keyUse, runs, steps, saved, state0, initPath>>

VARIABLES
  vae,      \* (encoder, decoder)
  data,     \* the batch: one single-element frame per example
  noise,    \* jax.random.normal(key, shape) for the key given to vae_loss
  perm,     \* a permutation of the batch axis
  out,      \* vae_loss(vae, data, key) and its two terms
  outp,     \* vae_loss(vae, permuted data, key) and its two terms
  outpn,    \* the same with the noise permuted along with the examples
  lpc       \* position of the evaluation

lvars == <<vae, data, noise, perm, out, outp, outpn, lpc>>

\* ------------------------------------------------------------ random keys
\* A key is its path in the split tree of jax.random.PRNGKey(cfg["seed"]).
PRNGKey == <<>>

split(key) == <<Append(key, 0), Append(key, 1)>>

Use(key, by) == [key |-> key, by |-> by]

\* ------------------------------------------------------- utils (external)
\* utils.update_state: splits the state's key, keeps one half, spends the
\* other on the loss' sampling, applies the update and increments i.
update_state(s) ==
  LET ks == split(s.key)
  IN  [vae |-> s.vae + 1, opt_state |-> s.opt_state + 1, key |-> ks[1], i |-> s.i + 1]

update_state_uses(s) ==
  {Use(s.key, "update_state.split"), Use(split(s.key)[2], "vae_loss.sample_gaussian")}

\* utils.ckpt_path(ckpt_dir, iteration, "vae"): one path per iteration number.
ckpt_path(iteration) == iteration

\* utils.save_checkpoint(state, path): writes (or overwrites) the snapshot.
save_checkpoint(st, s, path) ==
  [p \in DOMAIN st \cup {path} |-> IF p = path THEN s ELSE st[p]]

\* utils.load_checkpoint(path) succeeds iff a snapshot exists at the path.
CanLoad(st, ref) == ref \in DOMAIN st

load_checkpoint(st, ref) == st[ref]

\* ---------------------------------------------------------------- make_vae
make_vae_uses(key) ==
  {Use(key, "make_vae.split"),
   Use(split(key)[1], "VAEEncoder"),
   Use(split(key)[2], "VAEDecoder")}

\* ------------------------------------------------------------------- train
FreshStateFromOne ==
  LET ks == split(PRNGKey)
  IN  [vae |-> 0, opt_state |-> 0, key |-> ks[2], i |-> 1]

\* lines 154-159: the state built when no checkpoint is supplied.
FreshState ==
  LET ks == split(PRNGKey)
  IN  [vae |-> 0, opt_state |-> 0, key |-> ks[2], i |-> 0]

FreshUses == {Use(PRNGKey, "train.split")} \cup make_vae_uses(split(PRNGKey)[1])

CkptDueTwice(iteration) == (iteration % (2 * ckpt_interval)) = (ckpt_interval - 1)

\* line 185: the checkpoint condition.
CkptDue(iteration) == (iteration % ckpt_interval) = (ckpt_interval - 1)

\* line 186: the iteration number the checkpoint is tagged with.
CkptTag(iteration) == iteration + 1

Refs == 1..(MaxSteps + 2)

TInit ==
  /\ pc = "idle"
  /\ ckpt_interval \in Intervals
  /\ args_checkpoint = None
  /\ state = NoState
  /\ loss = 0
  /\ log = <<>>
  /\ store = <<>>
  /\ keyUse = {}
  /\ runs = 0
  /\ steps = 0
  /\ saved = <<>>
  /\ state0 = NoState
  /\ initPath = "none"

\* The command line starts train with or without --checkpoint.
StartTrain ==
  /\ pc \in {"idle", "failed"}
  /\ runs < MaxRuns
  /\ \E ref \in {None} \cup Refs : args_checkpoint' = ref
  /\ pc' = "init"
  /\ runs' = runs + 1
  /\ state' = NoState
  /\ state0' = NoState
  /\ initPath' = "none"
  /\ keyUse' = {}
  /\ steps' = 0
  /\ saved' = <<>>
  /\ loss' = 0
  /\ UNCHANGED <<ckpt_interval, log, store>>
  /\ UNCHANGED lvars

\* lines 153-159
InitFresh ==
  /\ pc = "init"
  /\ args_checkpoint = None
  /\ state' = FreshState
  /\ state0' = FreshState
  /\ keyUse' = keyUse \cup FreshUses
  /\ initPath' = "fresh"
  /\ pc' = "open"
  /\ UNCHANGED <<ckpt_interval, args_checkpoint, loss, log, store, runs, steps, saved>>
  /\ UNCHANGED lvars

\* lines 160-162, load_checkpoint returns
InitLoad ==
  /\ pc = "init"
  /\ args_checkpoint # None
  /\ CanLoad(store, args_checkpoint)
  /\ state' = load_checkpoint(store, args_checkpoint)
  /\ state0' = load_checkpoint(store, args_checkpoint)
  /\ initPath' = "load"
  /\ pc' = "open"
  /\ UNCHANGED <<ckpt_interval, args_checkpoint, loss, log, store, keyUse, runs, steps, saved>>
  /\ UNCHANGED lvars

InitLoadFallsBack ==
  /\ pc = "init"
  /\ args_checkpoint # None
  /\ ~CanLoad(store, args_checkpoint)
  /\ state' = FreshState
  /\ state0' = FreshState
  /\ keyUse' = keyUse \cup FreshUses
  /\ initPath' = "fresh"
  /\ pc' = "open"
  /\ UNCHANGED <<ckpt_interval, args_checkpoint, loss, log, store, runs, steps, saved>>
  /\ UNCHANGED lvars

\* lines 160-162, load_checkpoint raises: nothing in train catches it.
InitLoadFails ==
  /\ pc = "init"
  /\ args_checkpoint # None
  /\ ~CanLoad(store, args_checkpoint)
  /\ pc' = "failed"
  /\ UNCHANGED <<ckpt_interval, args_checkpoint, state, state0, initPath, loss, log,
                 store, keyUse, runs, steps, saved>>
  /\ UNCHANGED lvars

\* lines 164-170: open(metrics_path, "w") and FrameExtractor(..., state[2]).
OpenMetrics ==
  /\ pc = "open"
  /\ log' = <<>>
  /\ keyUse' = keyUse \cup {Use(state.key, "FrameExtractor")}
  /\ pc' = "loop"
  /\ UNCHANGED <<ckpt_interval, args_checkpoint, state, state0, initPath, loss, store,
                 runs, steps, saved>>
  /\ UNCHANGED lvars

\* lines 172-173: next(fe) and utils.update_state.
UpdateStep ==
  /\ pc = "loop"
  /\ steps < MaxSteps
  /\ \E l \in Losses : loss' = l
  /\ state' = update_state(state)
  /\ keyUse' = keyUse \cup update_state_uses(state)
  /\ steps' = steps + 1
  /\ pc' = "write"
  /\ UNCHANGED <<ckpt_interval, args_checkpoint, state0, initPath, log, store, runs, saved>>
  /\ UNCHANGED lvars

\* lines 182-183: f.write and f.flush.
WriteMetrics ==
  /\ pc = "write"
  /\ log' = Append(log, loss)
  /\ pc' = "ckpt"
  /\ UNCHANGED <<ckpt_interval, args_checkpoint, state, state0, initPath, loss, store,
                 keyUse, runs, steps, saved>>
  /\ UNCHANGED lvars

\* lines 184-188, the condition holds.
SaveCheckpoint ==
  /\ pc = "ckpt"
  /\ CkptDue(state.i)
  /\ store' = save_checkpoint(store, state, ckpt_path(CkptTag(state.i)))
  /\ saved' = Append(saved, ckpt_path(CkptTag(state.i)))
  /\ pc' = "loop"
  /\ UNCHANGED <<ckpt_interval, args_checkpoint, state, state0, initPath, loss, log,
                 keyUse, runs, steps>>
  /\ UNCHANGED lvars

\* lines 184-185, the condition fails.
SkipCheckpoint ==
  /\ pc = "ckpt"
  /\ ~CkptDue(state.i)
  /\ pc' = "loop"
  /\ UNCHANGED <<ckpt_interval, args_checkpoint, state, state0, initPath, loss, log,
                 store, keyUse, runs, steps, saved>>
  /\ UNCHANGED lvars

\* The process is terminated from outside, at any point of train.
Interrupt ==
  /\ pc \in {"init", "open", "loop", "write", "ckpt"}
  /\ pc' = "idle"
  /\ UNCHANGED <<ckpt_interval, args_checkpoint, state, state0, initPath, loss, log,
                 store, keyUse, runs, steps, saved>>
  /\ UNCHANGED lvars

\* --------------------------------------------------- sample / reconstruct
\* lines 72-79: sample_vae splits its key and spends one half on each draw.
sample_vae_uses(key) ==
  {Use(key, "sample_vae.split"),
   Use(split(key)[1], "sample_gaussian.z"),
   Use(split(key)[2], "sample_gaussian.x")}

\* lines 81-87: reconstruct_vae splits its key between ft.encode and ft.decode.
reconstruct_vae_uses(key) ==
  {Use(key, "reconstruct_vae.split"),
   Use(split(key)[1], "ft.encode"),
   Use(split(key)[2], "ft.decode")}

\* lines 118-127: sample loads a checkpoint and draws from PRNGKey(cfg["seed"]).
Sample ==
  /\ pc \in {"idle", "failed"}
  /\ runs < MaxRuns
  /\ \E ref \in DOMAIN store :
       /\ args_checkpoint' = ref
       /\ state' = load_checkpoint(store, ref)
  /\ keyUse' = sample_vae_uses(PRNGKey)
  /\ runs' = runs + 1
  /\ pc' = "idle"
  /\ state0' = NoState
  /\ initPath' = "none"
  /\ steps' = 0
  /\ saved' = <<>>
  /\ loss' = 0
  /\ UNCHANGED <<ckpt_interval, log, store>>
  /\ UNCHANGED lvars

\* lines 129-139: reconstruct loads a checkpoint and draws from PRNGKey(cfg["seed"]).
Reconstruct ==
  /\ pc \in {"idle", "failed"}
  /\ runs < MaxRuns
  /\ \E ref \in DOMAIN store :
       /\ args_checkpoint' = ref
       /\ state' = load_checkpoint(store, ref)
  /\ keyUse' = reconstruct_vae_uses(PRNGKey)
  /\ runs' = runs + 1
  /\ pc' = "idle"
  /\ state0' = NoState
  /\ initPath' = "none"
  /\ steps' = 0
  /\ saved' = <<>>
  /\ loss' = 0
  /\ UNCHANGED <<ckpt_interval, log, store>>
  /\ UNCHANGED lvars

TNext ==
  \/ StartTrain
  \/ Sample
  \/ Reconstruct
  \/ InitFresh
  \/ InitLoad
  \/ InitLoadFails
  \/ OpenMetrics
  \/ UpdateStep
  \/ WriteMetrics
  \/ SaveCheckpoint
  \/ SkipCheckpoint
  \/ Interrupt

\* ========================================================= the objective
MaxBatch == 2         \* examples per batch
MaxPixel == 1         \* frame values range over 0..MaxPixel
MaxNoise == 1         \* standard-normal draws range over -MaxNoise..MaxNoise
MaxLogVar == 1        \* log-variances range over 0..MaxLogVar, in units of 2 ln 2

RECURSIVE Pow(_, _)
Pow(b, k) == IF k = 0 THEN 1 ELSE b * Pow(b, k - 1)

RECURSIVE Fact(_)
Fact(n) == IF n = 0 THEN 1 ELSE n * Fact(n - 1)

\* A real number (n + l * ln 2 + c * ln sqrt(2 pi)) / Scale, kept exactly.
Scale == 2 * Pow(4, MaxLogVar) * Fact(MaxBatch)

Real(n, l, c) == [n |-> n, l |-> l, c |-> c]

Zero == Real(0, 0, 0)

RAdd(a, b) == Real(a.n + b.n, a.l + b.l, a.c + b.c)

RNeg(a) == Real(-a.n, -a.l, -a.c)

RDiv(a, d) == Real(a.n \div d, a.l \div d, a.c \div d)

\* jnp.exp(log_var) and jnp.exp(log_var / 2) of a log-variance k * 2 ln 2.
exp(k) == Pow(4, k)

exp_half(k) == Pow(2, k)

gaussian_kl_divergence_no_minus_one(p, q) ==
  LET d == p[1] - q[1]
  IN  RDiv(Real(((exp(p[2]) + d * d) * Scale) \div exp(q[2]),
                2 * (q[2] - p[2]) * Scale,
                0), 2)

\* line 18, elementwise
gaussian_kl_divergence(p, q) ==
  LET p_mean == p[1]
      p_log_var == p[2]
      q_mean == q[1]
      q_log_var == q[2]
      d == p_mean - q_mean
  IN  RDiv(Real(((exp(p_log_var) + d * d) * Scale) \div exp(q_log_var) - Scale,
                2 * (q_log_var - p_log_var) * Scale,
                0), 2)

\* line 23, elementwise
gaussian_log_probabilty(p, x) ==
  LET p_mean == p[1]
      p_log_var == p[2]
      d == x - p_mean
  IN  Real(-(((d * d * Scale) \div exp(p_log_var)) \div 2),
           -((2 * p_log_var * Scale) \div 2),
           -Scale)

\* line 28, elementwise: eps is the element's standard-normal draw.
sample_gaussian(p, eps) == eps * exp_half(p[2]) + p[1]

\* The encoders and decoders the objective is evaluated with: each maps a
\* value to (mean, log_variance).
Nets == {"identity", "zero", "hetero"}

Net(name, x) ==
  CASE name = "identity" -> <<x, 0>>
    [] name = "zero" -> <<0, 0>>
    [] name = "hetero" -> <<x, IF x % 2 = 0 THEN 0 ELSE MaxLogVar>>

RECURSIVE jnp_sum_skip_first(_)
jnp_sum_skip_first(t) ==
  IF Len(t) <= 1 THEN Zero ELSE RAdd(t[2], jnp_sum_skip_first(Tail(t)))

\* jnp.sum over a tensor of reals
RECURSIVE jnp_sum(_)
jnp_sum(t) == IF t = <<>> THEN Zero ELSE RAdd(t[1], jnp_sum(Tail(t)))

\* lines 42-55: the KL tensor and the log-probability tensor.
vae_terms(m, d, eps) ==
  LET encoder == m[1]
      decoder == m[2]
      q == [b \in 1..Len(d) |-> Net(encoder, d[b])]
      z == [b \in 1..Len(d) |-> sample_gaussian(q[b], eps[b])]
      z_prior == <<0, 0>>
      kl == [b \in 1..Len(d) |-> gaussian_kl_divergence(q[b], z_prior)]
      p == [b \in 1..Len(d) |-> Net(decoder, z[b])]
      log_p == [b \in 1..Len(d) |-> gaussian_log_probabilty(p[b], d[b])]
  IN  [kl |-> kl, log_p |-> log_p]

\* line 58
vae_loss(m, d, eps) ==
  LET t == vae_terms(m, d, eps)
      neg_log_p == [b \in 1..Len(d) |-> RNeg(t.log_p[b])]
  IN  RDiv(RAdd(jnp_sum(neg_log_p), jnp_sum(t.kl)), Len(d))

Eval(m, d, eps) ==
  [loss |-> vae_loss(m, d, eps),
   kl |-> vae_terms(m, d, eps).kl,
   log_p |-> vae_terms(m, d, eps).log_p]

Permute(t, pi) == [b \in 1..Len(t) |-> t[pi[b]]]

Perms(n) == {f \in [1..n -> 1..n] : \A a, b \in 1..n : f[a] = f[b] => a = b}

NoOut == [loss |-> Zero, kl |-> <<>>, log_p |-> <<>>]

LInit ==
  /\ vae \in Nets \X Nets
  /\ \E n \in 1..MaxBatch :
       /\ data \in [1..n -> 0..MaxPixel]
       /\ noise \in [1..n -> (-MaxNoise)..MaxNoise]
  /\ perm = <<>>
  /\ out = NoOut
  /\ outp = NoOut
  /\ outpn = NoOut
  /\ lpc = "batch"

EvalBatch ==
  /\ lpc = "batch"
  /\ out' = Eval(vae, data, noise)
  /\ lpc' = "permuted"
  /\ UNCHANGED <<vae, data, noise, perm, outp, outpn>>
  /\ UNCHANGED tvars

EvalPermuted ==
  /\ lpc = "permuted"
  /\ \E pi \in Perms(Len(data)) :
       /\ perm' = pi
       /\ outp' = Eval(vae, Permute(data, pi), noise)
  /\ lpc' = "permuted_noise"
  /\ UNCHANGED <<vae, data, noise, out, outpn>>
  /\ UNCHANGED tvars

EvalPermutedNoise ==
  /\ lpc = "permuted_noise"
  /\ outpn' = Eval(vae, Permute(data, perm), Permute(noise, perm))
  /\ lpc' = "done"
  /\ UNCHANGED <<vae, data, noise, perm, out, outp>>
  /\ UNCHANGED tvars

LNext ==
  \/ EvalBatch
  \/ EvalPermuted
  \/ EvalPermutedNoise

\* No objective is being evaluated.
LIdle ==
  /\ vae = <<"identity", "identity">>
  /\ data = <<>>
  /\ noise = <<>>
  /\ perm = <<>>
  /\ out = NoOut
  /\ outp = NoOut
  /\ outpn = NoOut
  /\ lpc = "idle"

\* No training process exists.
TIdle ==
  /\ pc = "off"
  /\ ckpt_interval = 1
  /\ args_checkpoint = None
  /\ state = NoState
  /\ loss = 0
  /\ log = <<>>
  /\ store = <<>>
  /\ keyUse = {}
  /\ runs = 0
  /\ steps = 0
  /\ saved = <<>>
  /\ state0 = NoState
  /\ initPath = "none"

vars == <<tvars, lvars>>

Init == TInit /\ LIdle

Next == TNext

Spec == Init /\ [][Next]_vars

InitLoss == LInit /\ TIdle

NextLoss == LNext

SpecLoss == InitLoss /\ [][NextLoss]_vars

\* ================================================================ claims
InLoop == pc \in {"loop", "write", "ckpt"}

InRun == pc \in {"open", "loop", "write", "ckpt"}

\* The most recent recovery point of the run: the last checkpoint it
\* persisted, or the state it started the loop with.
Recovery == IF saved = <<>> THEN state0 ELSE store[saved[Len(saved)]]

\* Completed update steps the recovery point does not reflect.
Lost == state.vae - Recovery.vae

\* C1: a run started from scratch that has completed exactly ckpt_interval
\* loop iterations has persisted exactly one checkpoint, tagged ckpt_interval.
OneCheckpointPerInterval ==
  (initPath = "fresh" /\ pc = "loop" /\ steps = ckpt_interval)
    => saved = <<ckpt_interval>>

\* C2: a run that loaded the checkpoint tagged N and has performed K update
\* steps holds a state with Iteration = N + K.
ResumeIteration ==
  (initPath = "load" /\ InRun) => state.i = args_checkpoint + steps

\* C3: every persisted checkpoint is tagged with the Iteration of the state
\* stored in it.
TagIsIteration == \A tag \in DOMAIN store : store[tag].i = tag

\* C4 (as claimed): at every point of the loop the update steps not reflected
\* in the recovery point number at most ckpt_interval - 1.
LossBelowInterval == InRun => Lost <= ckpt_interval - 1

\* C4 (amended): at every point of the loop the update steps not reflected in
\* the recovery point number at most ckpt_interval, and at most
\* ckpt_interval - 1 between two loop iterations.
BoundedLoss ==
  InRun => /\ Lost <= ckpt_interval
           /\ pc \in {"open", "loop"} => Lost <= ckpt_interval - 1

BoundedLossWitness ==
  /\ pc = "write"
  /\ saved # <<>>
  /\ ckpt_interval >= 2
  /\ Lost = ckpt_interval

\* C5: no key is handed to two consumers.
NoKeyReuse == \A u, v \in keyUse : u.key = v.key => u.by = v.by

\* C6: the metrics log only ever changes by one appended line, across runs too.
AppendOnlyLog ==
  [][log' = log \/ \E l \in Losses : log' = Append(log, l)]_vars

\* C7: Iteration is 0 when the loop starts from scratch, grows by exactly 1
\* with each update step, is changed by no other step of the loop and never
\* decreases during a run.
IterationCounter ==
  /\ [](initPath = "fresh" => state0.i = 0)
  /\ [](InRun => state.i = state0.i + steps)
  /\ [][InRun /\ pc' # "init" =>
          /\ state'.i >= state.i
          /\ state'.i # state.i => (pc = "loop" /\ state'.i = state.i + 1)
          /\ pc \in {"open", "write", "ckpt"} => state' = state]_vars

IterationCounterWitness ==
  /\ initPath = "fresh"
  /\ pc = "loop"
  /\ steps = 3
  /\ state.i = 3
  /\ saved # <<>>

\* C8 (as claimed): with the key fixed, the loss of the permuted batch equals
\* the loss of the batch.
PermutationInvariantFixedKey == lpc = "done" => outp.loss = out.loss

\* C8 (amended): the loss of the permuted batch equals the loss of the batch
\* when each example keeps its noise draw; with the key fixed (the noise
\* staying with the batch position) the summed KL term is still the same.
PermutationInvariant ==
  lpc = "done" => /\ outpn.loss = out.loss
                  /\ jnp_sum(outp.kl) = jnp_sum(out.kl)

PermutationInvariantWitness ==
  /\ lpc = "done"
  /\ Permute(data, perm) # data
  /\ Permute(noise, perm) # noise
  /\ outp.loss # out.loss
  /\ outpn.loss = out.loss

IdentityModel == vae = <<"identity", "identity">>

ZeroBatch == \A b \in 1..Len(data) : data[b] = 0

LogSqrt2Pi == Real(0, 0, Scale)

\* C9 (as claimed): identity encoder and decoder on an all-zero batch give a
\* KL term of 0, a log-probability of -log(sqrt(2 pi)) for every element and
\* a loss of log(sqrt(2 pi)), whatever the key.
ClosedFormLoss ==
  (lpc = "done" /\ IdentityModel /\ ZeroBatch) =>
    /\ \A b \in 1..Len(data) : out.kl[b] = Zero
    /\ \A b \in 1..Len(data) : out.log_p[b] = RNeg(LogSqrt2Pi)
    /\ out.loss = LogSqrt2Pi

\* C9 (amended): identity encoder and decoder on an all-zero batch give a KL
\* term of 0, a log-probability of -eps^2/2 - log(sqrt(2 pi)) for the element
\* whose noise draw is eps, and a loss of
\* log(sqrt(2 pi)) + sum(eps^2) / (2 * size).
ClosedFormLossWithNoise ==
  (lpc = "done" /\ IdentityModel /\ ZeroBatch) =>
    /\ \A b \in 1..Len(data) : out.kl[b] = Zero
    /\ \A b \in 1..Len(data) :
         /\ 2 * out.log_p[b].n = -(noise[b] * noise[b] * Scale)
         /\ out.log_p[b].l = 0
         /\ out.log_p[b].c = -Scale
    /\ 2 * Len(data) * out.loss.n
         = Scale * jnp_sum([b \in 1..Len(data) |-> Real(noise[b] * noise[b], 0, 0)]).n
    /\ out.loss.l = 0
    /\ out.loss.c = Scale

ClosedFormLossWitness ==
  /\ lpc = "done"
  /\ IdentityModel
  /\ ZeroBatch
  /\ Len(data) = 2
  /\ noise = <<1, 0>>
  /\ out.loss # LogSqrt2Pi

\* C10: a failing checkpoint load ends the run before a state is built, a
\* step is run, the metrics log is touched or a checkpoint is persisted; the
\* fresh state is built only when no checkpoint reference was supplied.
LoadFailureFatal ==
  /\ [][(pc = "init" /\ args_checkpoint # None /\ ~CanLoad(store, args_checkpoint)) =>
          /\ pc' \in {"failed", "idle"}
          /\ state' = NoState
          /\ log' = log
          /\ store' = store
          /\ steps' = 0
          /\ saved' = <<>>]_vars
  /\ [](pc = "failed" => (state = NoState /\ initPath = "none" /\ steps = 0))
  /\ [](initPath = "fresh" => args_checkpoint = None)

LoadFailureFatalWitness ==
  /\ pc = "failed"
  /\ log # <<>>
  /\ store # <<>>
  /\ ~CanLoad(store, args_checkpoint)

====
